---- MODULE Spec2Model ----
(***************************************************************************)
(* GrblDriver (src/GrblMotors/grbldriver.py): a synchronous driver that    *)
(* talks to a GRBL board over one serial link.  The driver is a sequential *)
(* program; the board runs concurrently with it.  The link is two FIFOs:   *)
(* outq (bytes written by the driver, not yet handled by the board) and    *)
(* inbuf (lines sent by the board, not yet read by the driver).            *)
(*                                                                         *)
(* Numbers.  Every value that crosses the link is a decimal with three     *)
(* places; it is held here as an integer count of thousandths.  A Python   *)
(* float the driver computes by a division is held as the exact pair       *)
(* <<num, den>>; formatting it ('{:.3f}') rounds it to thousandths, and    *)
(* comparing it with a parsed reading is exact rational equality.          *)
(***************************************************************************)
EXTENDS Integers, Sequences, FiniteSets, TLC

\* ------------------------------------------------------------------ bounds
MaxPos == 1        \* travel of each axis, in thousandths of a unit
MaxOps == 2        \* public operations started in one behaviour
MaxPolls == 3      \* status requests sent by one operation
MaxCfgChanges == 1 \* caller's assignments to an axis configuration
MaxOut == 2        \* commands written that the board has not yet handled
MaxFaults == 1     \* limit and door events in one behaviour

\* --------------------------------------------------------------- constants
maxreads == 100

Axes == <<"X", "Y", "Z">>
AxisSet == {"X", "Y", "Z"}
AxisIx(a) == CHOOSE i \in 1..3 : Axes[i] = a

Keys == <<"steps/mm", "mm/min", "mm/sec2">>

\* xsettingsmap, ysettingsmap, zsettingsmap: '$100','$110','$120' and so on
settingsmap(a, key) ==
    CASE key = "steps/mm" -> 100 + (AxisIx(a) - 1)
      [] key = "mm/min"   -> 110 + (AxisIx(a) - 1)
      [] key = "mm/sec2"  -> 120 + (AxisIx(a) - 1)

AxisCodes == {settingsmap(a, Keys[j]) : a \in AxisSet, j \in 1..3}

\* self.globalconfig
GlobalCodes == {1, 5, 21, 22, 24, 25}
globalconfig(c) ==
    CASE c = 1 -> 255 [] c = 5 -> 1 [] c = 21 -> 1
      [] c = 22 -> 1 [] c = 24 -> 25 [] c = 25 -> 300

Codes == GlobalCodes \cup AxisCodes

\* the configuration __init__ gives every axis
DefaultConfig == [sps |-> 6400, sps2 |-> 5000, spm |-> 1000]

\* values a caller may assign to a key of xconfig / yconfig / zconfig
CfgVals(key) ==
    CASE key = "sps"  -> {6400, 3200}
      [] key = "sps2" -> {5000, 2500}
      [] key = "spm"  -> {1000, 500}

\* ----------------------------------------------------------------- numbers
Max(S) == CHOOSE x \in S : \A y \in S : y <= x
Min(S) == CHOOSE x \in S : \A y \in S : x <= y

\* n/d rounded to the nearest integer (n >= 0, d > 0)
RoundDiv(n, d) == (2 * n + d) \div (2 * d)

\* '{:.3f}'.format(v) for v = num/den: thousandths
Fmt3(v) == RoundDiv(v[1] * 1000, v[2])

\* float(reading) == v, reading in thousandths, v = num/den
FloatEq(reading, v) == reading * v[2] = v[1] * 1000

\* ------------------------------------------------------------------- lines
Ok == [k |-> "ok"]
StatusLine(st, sub, mp) == [k |-> "status", state |-> st, sub |-> sub, mpos |-> mp]
AlarmLine(c) == [k |-> "ALARM", code |-> c]
Echo(c, v) == [k |-> "echo", code |-> c, val |-> v]
Other(t) == [k |-> "other", text |-> t]

\* ---------------------------------------------------------------- commands
CmdG90 == [c |-> "G90"]
\* a G0 that carries the step count unconverted
CmdG0_steps(a, steps, spm) == [c |-> "G0", axis |-> a, num |-> steps, den |-> 1]

CmdG0(a, steps, spm) == [c |-> "G0", axis |-> a, num |-> steps, den |-> spm]
CmdStatus == [c |-> "?"]
\* a dump request that writes a setting instead
CmdDump_write == [c |-> "set", code |-> 100, val |-> 0]

CmdDump == [c |-> "$$"]

CmdSet(code, val) == [c |-> "set", code |-> code, val |-> val]
CmdUnlock == [c |-> "$X"]
CmdHomeZ == [c |-> "$HZ"]
CmdHold == [c |-> "!"]
CmdReset == [c |-> "0x18"]

\* -------------------------------------------- Python floats (IEEE doubles)
\* get_positions computes float(x) * steps/mm in doubles.  A natural number
\* too wide for one machine integer is a sequence of limbs, least significant
\* first, without leading zero limbs (zero is <<>>).

LimbBase == 32768  \* 2^15
MantBits == 53     \* significant bits of a double

RECURSIVE Pow2(_)
Pow2(b) == IF b = 0 THEN 1 ELSE 2 * Pow2(b - 1)

RECURSIVE Bits(_)
Bits(n) == IF n = 0 THEN 0 ELSE 1 + Bits(n \div 2)

RECURSIVE BigOf(_)
BigOf(n) == IF n = 0 THEN <<>> ELSE <<n % LimbBase>> \o BigOf(n \div LimbBase)

\* x * c + carry, for 1 <= c <= LimbBase
RECURSIVE BigMulAdd(_, _, _)
BigMulAdd(x, c, carry) ==
    IF x = <<>> THEN BigOf(carry)
    ELSE LET v == x[1] * c + carry
         IN <<v % LimbBase>> \o BigMulAdd(Tail(x), c, v \div LimbBase)

\* <<x \div d, x % d>>, for 1 <= d <= LimbBase
RECURSIVE BigDivRem(_, _)
BigDivRem(x, d) ==
    IF x = <<>> THEN <<<<>>, 0>>
    ELSE LET hi == BigDivRem(Tail(x), d)
             v == hi[2] * LimbBase + x[1]
         IN <<IF hi[1] = <<>> /\ v \div d = 0 THEN <<>> ELSE <<v \div d>> \o hi[1],
              v % d>>

RECURSIVE Zeros(_)
Zeros(n) == IF n = 0 THEN <<>> ELSE <<0>> \o Zeros(n - 1)

\* x * 2^s
BigShl(x, s) ==
    IF x = <<>> THEN <<>>
    ELSE Zeros(s \div 15) \o BigMulAdd(x, Pow2(s % 15), 0)

BigBits(x) == IF x = <<>> THEN 0 ELSE 15 * (Len(x) - 1) + Bits(x[Len(x)])

\* -1, 0, 1 as x is below, equal to or above y, comparing limbs i and below
RECURSIVE CmpFrom(_, _, _)
CmpFrom(x, y, i) ==
    IF i = 0 THEN 0
    ELSE IF x[i] < y[i] THEN -1
    ELSE IF x[i] > y[i] THEN 1
    ELSE CmpFrom(x, y, i - 1)

BigCmp(x, y) ==
    IF Len(x) < Len(y) THEN -1
    ELSE IF Len(x) > Len(y) THEN 1
    ELSE CmpFrom(x, y, Len(x))

\* q, or q + 1, as round-half-to-even says of a division by d that left r
RoundEven(q, r, d) ==
    IF 2 * r > d \/ (2 * r = d /\ q # <<>> /\ q[1] % 2 = 1)
    THEN BigMulAdd(q, 1, 1)
    ELSE q

\* n * 2^e \div 1000 has MantBits bits for e = Scale(n)
Scale(n) ==
    LET e == 62 - Bits(n)
    IN IF BigBits(BigDivRem(BigShl(BigOf(n), e), 1000)[1]) = MantBits
       THEN e ELSE e + 1

\* float('<n/1000 to three decimals>') for n >= 1: the double nearest to
\* n/1000, as [m, e] with value m * 2^-e
FloatOfMilli(n) ==
    LET e == Scale(n)
        qr == BigDivRem(BigShl(BigOf(n), e), 1000)
    IN [m |-> RoundEven(qr[1], qr[2], 1000), e |-> e]

\* f * c in doubles, for an integer 1 <= c <= LimbBase: the product rounded to
\* MantBits bits, half to even
FloatTimes(f, c) ==
    LET p == BigMulAdd(f.m, c, 0)
        s == IF BigBits(p) > MantBits THEN BigBits(p) - MantBits ELSE 0
        qr == BigDivRem(p, Pow2(s))
    IN [m |-> BigShl(RoundEven(qr[1], qr[2], Pow2(s)), s), e |-> f.e]

\* float(n/1000) * c for a coordinate of n thousandths, n >= 0: the double
\* computed (m * 2^-e), the exact product in thousandths, and dir = -1, 0, 1
\* as the double lies below, on or above the exact product
FloatMul(n, c) ==
    IF n = 0 THEN [exact |-> 0, dir |-> 0, m |-> <<>>, e |-> 0]
    ELSE LET r == FloatTimes(FloatOfMilli(n), c)
         IN [exact |-> n * c,
             dir |-> BigCmp(BigMulAdd(r.m, 1000, 0),
                            BigShl(BigMulAdd(BigOf(n), c, 0), r.e)),
             m |-> r.m, e |-> r.e]

\* ------------------------------------------------------------------- state
VARIABLES
    config,         \* xconfig / yconfig / zconfig, by axis
    writesettings,  \* xwritesettings / ywritesettings / zwritesettings
    cfgchanges,     \* assignments the caller has made to an axis configuration
    dset,           \* board: stored settings, code -> thousandths
    dstate,         \* board: "Idle" | "Run" | "Hold" | "Door" | "Alarm"
    dsub,           \* board: sub-code of Hold and Door, -1 otherwise
    mpos,           \* board: machine position by axis, thousandths
    tgt,            \* board: the move in progress
    faults,         \* board: the limit and door events so far
    alarmAt,        \* Len(sent) when the board sent its last ALARM line, or -1
    outq,           \* link, driver -> board
    inbuf,          \* link, board -> driver (the serial input buffer)
    pc,             \* driver: position in the running operation, or "idle"
    op,             \* driver: the operation running or last run
    ctx,            \* driver: the caller of get_status_report
    arg,            \* driver: arguments of the operation
    k,              \* driver: axis index of write_all_settings' loop
    resp,           \* driver: the list the last _read_buffer returned
    state,          \* driver: state tag of the last parsed status report
    result,         \* driver: "none" while running, else how the call ended
    err,            \* driver: slots of the exception message, if any
    ret,            \* driver: value returned by the last call
    sent,           \* per operation: the commands written, in order
    ndrains,        \* per operation: the calls of _read_buffer
    nops,           \* operations started
    npolls,         \* status requests sent by the operation
    hist,           \* outcomes of the calls of a scripted sequence, in order
    fin,            \* input of a function applied on its own
    fout            \* its output

cfgVars == <<config, writesettings, cfgchanges>>
devVars == <<dset, dstate, dsub, mpos, tgt, faults, alarmAt>>
linkVars == <<outq, inbuf>>
drvVars == <<pc, op, ctx, arg, k, resp, state, result, err, ret, sent, ndrains, nops, npolls>>
auxVars == <<hist, fin, fout>>
vars == <<cfgVars, devVars, linkVars, drvVars, auxVars>>

NoArg == [axis |-> "-", steps |-> 0, blocking |-> FALSE]
NoErr == [key |-> "-", current |-> <<0, 1>>, expected |-> 0]
NoState == [tag |-> "-", sub |-> -1]
NoRet == <<>>
NoIn == [f |-> "-"]
NoOut == [f |-> "-"]

\* -------------------------------------------------- the driver's functions

\* _update_writesettings: 'steps/mm' is the literal 1000
update_writesettings(cfg) ==
    [a \in AxisSet |->
        [key \in {"steps/mm", "mm/min", "mm/sec2"} |->
            CASE key = "steps/mm" -> <<1000, 1>>
              [] key = "mm/min"   -> <<cfg[a].sps * 60, cfg[a].spm>>
              [] key = "mm/sec2"  -> <<cfg[a].sps2, cfg[a].spm>>]]

\* a loop that reads until the empty read only, whatever the cap
ReadLoop_nocap(buf, acc, i, cap) == <<acc \o buf, <<>>>>

\* _read_buffer's loop: readline until an empty read or maxreads lines
RECURSIVE ReadLoop(_, _, _, _)
ReadLoop(buf, acc, i, cap) ==
    IF i < cap /\ buf # <<>>
    THEN ReadLoop(Tail(buf), Append(acc, Head(buf)), i + 1, cap)
    ELSE <<acc, buf>>

\* _read_buffer: <<the lines returned, the lines left in the input buffer>>
read_buffer(buf) == ReadLoop(buf, <<>>, 0, maxreads)

\* m.split(':')[0] of a line
LeadToken(line) ==
    CASE line.k = "ALARM" -> "ALARM"
      [] line.k = "ok" -> "ok"
      [] line.k = "echo" -> "$"
      [] line.k = "status" -> "<"
      [] OTHER -> "other"

\* a check_alarm that looks at the first line only
check_alarm_first(bufferoutput) ==
    Len(bufferoutput) > 0 /\ LeadToken(bufferoutput[1]) = "ALARM"

\* check_alarm raises: some line of the list has the leading token ALARM
check_alarm(bufferoutput) ==
    \E i \in 1..Len(bufferoutput) : LeadToken(bufferoutput[i]) = "ALARM"

\* get_status_report after the alarm check: how the parse of resp ends
StatusParse(r) ==
    IF Len(r) = 0 THEN "IndexError"
    ELSE IF r[1].k # "status" THEN "AssertStatus"
    ELSE "ok"

\* state == 'Run'
IsRun(s) == s.tag = "Run" /\ s.sub = -1

\* get_positions: float(x) * c['steps/mm'] by axis, as FloatMul holds a double
steppositions(mp, cfg) == [a \in AxisSet |-> FloatMul(mp[a], cfg[a].spm)]

\* _move: `currentsteps - steps < 1` passes.  The difference of the double and
\* the integer is exact, so it is below 1 when the exact product is, and also
\* when the exact product is one step above the target and the double below it
PositionAssert(current, steps) ==
    \/ current.exact - steps * 1000 < 1000
    \/ current.exact - steps * 1000 = 1000 /\ current.dir < 0

\* ------------------------------------------------------------ initial state

\* the value of a setting code that matches the driver's initial configuration
Desired(c) ==
    IF c \in GlobalCodes THEN globalconfig(c) * 1000
    ELSE LET a == Axes[(c % 10) + 1]
             key == Keys[((c - 100) \div 10) + 1]
         IN Fmt3(update_writesettings([x \in AxisSet |-> DefaultConfig])[a][key])

\* a value the board may hold instead (a board not provisioned for that code)
Unprovisioned(c) == IF Desired(c) = 1000000 THEN 800000 ELSE Desired(c) + 1000

\* the driver after __init__ and the board, which holds Unprovisioned(odd) for
\* the code odd (0: the board holds every desired value)
Constructed(odd) ==
    /\ config = [a \in AxisSet |-> DefaultConfig]
    /\ writesettings = update_writesettings(config)
    /\ cfgchanges = 0
    /\ dset = [c \in Codes |-> IF c = odd THEN Unprovisioned(c) ELSE Desired(c)]
    /\ dstate = "Idle"
    /\ dsub = -1
    /\ mpos = [a \in AxisSet |-> 0]
    /\ tgt = <<>>
    /\ faults = 0
    /\ alarmAt = -1
    /\ outq = <<>>
    /\ inbuf = <<>>
    /\ pc = "idle"
    /\ op = "-"
    /\ ctx = "-"
    /\ arg = NoArg
    /\ k = 0
    /\ resp = <<>>
    /\ state = NoState
    /\ result = "none"
    /\ err = NoErr
    /\ ret = NoRet
    /\ sent = <<>>
    /\ ndrains = 0
    /\ nops = 0
    /\ npolls = 0
    /\ hist = <<>>

\* the state after __init__, no function applied on its own
InitWith(odd) == Constructed(odd) /\ fin = NoIn /\ fout = NoOut

\* the codes tried as the one unprovisioned, or the one lost from a dump: a
\* resolution, a rate and an acceleration of different axes, and a global
ProbeCodes == {100, 111, 122, 22}

Init == \E odd \in ProbeCodes \cup {0} : InitWith(odd)

\* a board that holds every setting the driver's initial configuration asks for
InitProvisioned == InitWith(0)

\* ------------------------------------------------------- driver: fragments

\* a public method is called while no other is running
Start(name, a, first) ==
    /\ pc = "idle"
    /\ nops' = nops + 1
    /\ op' = name
    /\ arg' = a
    /\ pc' = first
    /\ result' = "none"
    /\ err' = NoErr
    /\ ret' = NoRet
    /\ sent' = <<>>
    /\ ndrains' = 0
    /\ npolls' = 0
    /\ alarmAt' = -1
    /\ resp' = <<>>
    /\ state' = NoState
    /\ k' = 0
    /\ UNCHANGED <<dset, dstate, dsub, mpos, tgt, faults, linkVars>>

\* a call the caller is free to make, within the budget of calls
Begin(name, a, first) == nops < MaxOps /\ Start(name, a, first)

\* _write(command)
Send(cmd) ==
    /\ Len(outq) < MaxOut
    /\ outq' = Append(outq, cmd)
    /\ sent' = Append(sent, cmd)
    /\ UNCHANGED <<inbuf, ndrains>>

\* resp = self._read_buffer()
Drain ==
    /\ resp' = read_buffer(inbuf)[1]
    /\ inbuf' = read_buffer(inbuf)[2]
    /\ ndrains' = ndrains + 1
    /\ UNCHANGED <<outq, sent>>

\* the call returns (res = "ok") or raises (res names the exception)
Finish(res, e, r) ==
    /\ pc' = "idle"
    /\ result' = res
    /\ err' = e
    /\ ret' = r

\* ---------------------------------------------------------- driver: _move

\* the step targets whose position lies within the travel of the axis
StepTargets(a) == {s \in 0..MaxPos : RoundDiv(s * 1000, config[a].spm) <= MaxPos}

\* xmove / ymove / zmove
Move(a, steps, blocking) ==
    Begin("move", [axis |-> a, steps |-> steps, blocking |-> blocking], "mv_g90")
    /\ UNCHANGED <<ctx, cfgVars, auxVars>>

\* _move: self._write('G90')
MoveG90 ==
    /\ pc = "mv_g90"
    /\ Send(CmdG90)
    /\ pc' = "mv_g0"
    /\ UNCHANGED <<cfgVars, auxVars, devVars, op, ctx, arg, k, resp, state, result, err, ret, nops, npolls>>

\* a _move that polls the status whatever `blocking` says
MoveG0_polls ==
    /\ pc = "mv_g0"
    /\ Send(CmdG0(arg.axis, arg.steps, config[arg.axis].spm))
    /\ pc' = "sr_stale" /\ ctx' = "mvloop" /\ UNCHANGED <<result, err, ret>>
    /\ UNCHANGED <<cfgVars, auxVars, devVars, op, arg, k, resp, state, nops, npolls>>

\* _move: self._write('G0 '+axis+str(pos)), and the return of a non-blocking move
MoveG0 ==
    /\ pc = "mv_g0"
    /\ Send(CmdG0(arg.axis, arg.steps, config[arg.axis].spm))
    /\ IF arg.blocking
       THEN pc' = "sr_stale" /\ ctx' = "mvloop" /\ UNCHANGED <<result, err, ret>>
       ELSE Finish("ok", NoErr, NoRet) /\ UNCHANGED ctx
    /\ UNCHANGED <<cfgVars, auxVars, devVars, op, arg, k, resp, state, nops, npolls>>

\* ------------------------------------------- driver: get_status_report

GetStatusReport ==
    Begin("get_status_report", NoArg, "sr_stale") /\ ctx' = "status" /\ UNCHANGED <<cfgVars, auxVars>>

GetPositions ==
    Begin("get_positions", NoArg, "sr_stale") /\ ctx' = "positions" /\ UNCHANGED <<cfgVars, auxVars>>

\* self.check_alarm(self._read_buffer())
StatusStale ==
    /\ pc = "sr_stale"
    /\ Drain
    /\ IF check_alarm(read_buffer(inbuf)[1])
       THEN Finish("Alarm", NoErr, NoRet)
       ELSE pc' = "sr_send" /\ UNCHANGED <<result, err, ret>>
    /\ UNCHANGED <<cfgVars, auxVars, devVars, op, ctx, arg, k, state, nops, npolls>>

\* self._write('?')
StatusSend ==
    /\ pc = "sr_send"
    /\ npolls < MaxPolls
    /\ npolls' = npolls + 1
    /\ Send(CmdStatus)
    /\ pc' = "sr_resp"
    /\ UNCHANGED <<cfgVars, auxVars, devVars, op, ctx, arg, k, resp, state, result, err, ret, nops>>

\* what the caller of get_status_report does with (state, status)
AfterStatus(s, mp) ==
    CASE ctx = "status" ->
            Finish("ok", NoErr, <<s, mp>>) /\ UNCHANGED ctx
      [] ctx = "positions" ->
            Finish("ok", NoErr, steppositions(mp, config)) /\ UNCHANGED ctx
      [] ctx = "mvloop" ->
            /\ pc' = "sr_stale"
            /\ ctx' = IF IsRun(s) THEN "mvloop" ELSE "mvpos"
            /\ UNCHANGED <<result, err, ret>>
      [] ctx = "mvpos" ->
            /\ IF PositionAssert(steppositions(mp, config)[arg.axis], arg.steps)
               THEN Finish("ok", NoErr, NoRet)
               ELSE Finish("AssertPos",
                           [key |-> arg.axis,
                            current |-> <<steppositions(mp, config)[arg.axis].exact, 1000>>,
                            expected |-> arg.steps * 1000],
                           NoRet)
            /\ UNCHANGED ctx
      [] ctx = "cstop" ->
            /\ IF s.sub = -1
               THEN Finish("IndexError", NoErr, NoRet)
               ELSE /\ pc' = IF s.sub = 0 THEN "rs_send" ELSE "sr_stale"
                    /\ UNCHANGED <<result, err, ret>>
            /\ UNCHANGED ctx

\* get_status_report: resp = self._read_buffer(), after the status request
StatusResp ==
    /\ pc = "sr_resp"
    /\ Drain
    /\ pc' = "sr_use"
    /\ UNCHANGED <<cfgVars, auxVars, devVars, op, ctx, arg, k, state, result, err, ret, nops, npolls>>

\* get_status_report: self.check_alarm(resp), the parse, and what the caller
\* does with the report
StatusUse ==
    /\ pc = "sr_use"
    /\ IF check_alarm(resp)
       THEN Finish("Alarm", NoErr, NoRet) /\ UNCHANGED <<ctx, state>>
       ELSE IF StatusParse(resp) # "ok"
       THEN Finish(StatusParse(resp), NoErr, NoRet) /\ UNCHANGED <<ctx, state>>
       ELSE /\ state' = [tag |-> resp[1].state, sub |-> resp[1].sub]
            /\ AfterStatus([tag |-> resp[1].state, sub |-> resp[1].sub], resp[1].mpos)
    /\ UNCHANGED <<cfgVars, auxVars, devVars, linkVars, op, arg, k, resp, sent, ndrains, nops, npolls>>

\* ------------------------------------------------- driver: stop and reset

ControlledStop ==
    Begin("controlled_stop", NoArg, "cs_hold") /\ ctx' = "cstop" /\ UNCHANGED <<cfgVars, auxVars>>

\* controlled_stop: self._write('!')
ControlledStopHold ==
    /\ pc = "cs_hold"
    /\ Send(CmdHold)
    /\ pc' = "sr_stale"
    /\ UNCHANGED <<cfgVars, auxVars, devVars, op, ctx, arg, k, resp, state, result, err, ret, nops, npolls>>

\* soft_reset(), and stop(), which only calls it
SoftReset ==
    \E name \in {"soft_reset", "stop"} :
        Begin(name, NoArg, "rs_send") /\ UNCHANGED <<ctx, cfgVars, auxVars>>

\* soft_reset: self._write('\x18')
ResetSend ==
    /\ pc = "rs_send"
    /\ Send(CmdReset)
    /\ pc' = "rs_drain"
    /\ UNCHANGED <<cfgVars, auxVars, devVars, op, ctx, arg, k, resp, state, result, err, ret, nops, npolls>>

\* a soft_reset that alarm-checks what it drains
ResetDrain_checked ==
    /\ pc = "rs_drain"
    /\ Drain
    /\ IF check_alarm(read_buffer(inbuf)[1])
       THEN Finish("Alarm", NoErr, NoRet)
       ELSE Finish("ok", NoErr, NoRet)
    /\ UNCHANGED <<cfgVars, auxVars, devVars, op, ctx, arg, k, state, nops, npolls>>

\* soft_reset: self._read_buffer(), its result dropped
ResetDrain ==
    /\ pc = "rs_drain"
    /\ Drain
    /\ Finish("ok", NoErr, NoRet)
    /\ UNCHANGED <<cfgVars, auxVars, devVars, op, ctx, arg, k, state, nops, npolls>>

AlarmReset == Begin("alarm_reset", NoArg, "ar_send") /\ UNCHANGED <<ctx, cfgVars, auxVars>>

\* alarm_reset: self._write('$X')
AlarmResetSend ==
    /\ pc = "ar_send"
    /\ Send(CmdUnlock)
    /\ Finish("ok", NoErr, NoRet)
    /\ UNCHANGED <<cfgVars, auxVars, devVars, op, ctx, arg, k, resp, state, nops, npolls>>

ZHome == Begin("zhome", NoArg, "hz_send") /\ UNCHANGED <<ctx, cfgVars, auxVars>>

\* zhome: self._write('$HZ')
ZHomeSend ==
    /\ pc = "hz_send"
    /\ Send(CmdHomeZ)
    /\ Finish("ok", NoErr, NoRet)
    /\ UNCHANGED <<cfgVars, auxVars, devVars, op, ctx, arg, k, resp, state, nops, npolls>>

\* ------------------------------------------------------ driver: settings

\* the caller assigns a key of xconfig / yconfig / zconfig between two calls
SetConfig(a, key, v) ==
    /\ pc = "idle"
    /\ cfgchanges < MaxCfgChanges
    /\ v # config[a][key]
    /\ config' = [config EXCEPT ![a][key] = v]
    /\ cfgchanges' = cfgchanges + 1
    /\ UNCHANGED <<writesettings, auxVars, devVars, linkVars, drvVars>>

WriteAllSettings == Begin("write_all_settings", NoArg, "ws_update") /\ UNCHANGED <<ctx, cfgVars, auxVars>>

\* write_all_settings: self._update_writesettings(), then the first axis
WriteUpdate ==
    /\ pc = "ws_update"
    /\ writesettings' = update_writesettings(config)
    /\ k' = 1
    /\ pc' = "ws_reset"
    /\ UNCHANGED <<config, cfgchanges, auxVars, devVars, linkVars, op, ctx, arg, resp, state,
                   result, err, ret, sent, ndrains, nops, npolls>>

\* _write_settings: self.ser.reset_input_buffer()
WriteReset ==
    /\ pc = "ws_reset"
    /\ inbuf' = <<>>
    /\ pc' = "ws_send"
    /\ UNCHANGED <<cfgVars, auxVars, devVars, outq, op, ctx, arg, k, resp, state,
                   result, err, ret, sent, ndrains, nops, npolls>>

\* the command _write_settings sends for key j of axis a
WriteCommand(a, j) == CmdSet(settingsmap(a, Keys[j]), Fmt3(writesettings[a][Keys[j]]))

\* _write_settings: one pass of `for s, v in settings.items()`
WriteSend ==
    /\ pc = "ws_send"
    /\ LET j == Len(sent) - 3 * (k - 1) + 1 IN
       /\ Send(WriteCommand(Axes[k], j))
       /\ pc' = IF j = 3 THEN "ws_drain" ELSE "ws_send"
    /\ UNCHANGED <<cfgVars, auxVars, devVars, op, ctx, arg, k, resp, state,
                   result, err, ret, nops, npolls>>

\* an assertion on the first response only
AllOk_first(r) == Len(r) = 0 \/ r[1] = Ok

\* `for r in resp: assert r == 'ok'` passes
AllOk(r) == \A i \in 1..Len(r) : r[i] = Ok

\* _write_settings: resp = self._read_buffer() and the assertions; the next axis
WriteDrain ==
    /\ pc = "ws_drain"
    /\ Drain
    /\ IF ~AllOk(read_buffer(inbuf)[1])
       THEN Finish("AssertOk", NoErr, NoRet) /\ UNCHANGED k
       ELSE IF k < 3
       THEN pc' = "ws_reset" /\ k' = k + 1 /\ UNCHANGED <<result, err, ret>>
       ELSE Finish("ok", NoErr, NoRet) /\ UNCHANGED k
    /\ UNCHANGED <<cfgVars, auxVars, devVars, op, ctx, arg, state, nops, npolls>>

VerifySettings == Begin("verify_settings", NoArg, "vs_reset") /\ UNCHANGED <<ctx, cfgVars, auxVars>>

\* verify_settings: self.ser.reset_input_buffer()
VerifyReset ==
    /\ pc = "vs_reset"
    /\ inbuf' = <<>>
    /\ pc' = "vs_send"
    /\ UNCHANGED <<cfgVars, auxVars, devVars, outq, op, ctx, arg, k, resp, state,
                   result, err, ret, sent, ndrains, nops, npolls>>

\* verify_settings: self._write('$$')
VerifySend ==
    /\ pc = "vs_send"
    /\ Send(CmdDump)
    /\ pc' = "vs_drain"
    /\ UNCHANGED <<cfgVars, auxVars, devVars, op, ctx, arg, k, resp, state,
                   result, err, ret, nops, npolls>>

\* settings[k] after the loop over resp: the reading of the last echo of the
\* code, or -1 when the key was never assigned
LastEcho(r, code) ==
    LET I == {i \in 1..Len(r) : r[i].k = "echo" /\ r[i].code = code}
    IN IF I = {} THEN -1 ELSE r[Max(I)].val

\* the n-th comparison of the per-axis loops: axis and key
CheckAxis(n) == Axes[((n - 1) \div 3) + 1]
CheckKey(n) == Keys[((n - 1) % 3) + 1]

GlobalName(c) ==
    CASE c = 1 -> "$1" [] c = 5 -> "$5" [] c = 21 -> "$21"
      [] c = 22 -> "$22" [] c = 24 -> "$24" [] c = 25 -> "$25"

\* `reading != self.globalconfig[cmd]` for line i of resp
GlobalDiffers(r, i) ==
    /\ r[i].k = "echo"
    /\ r[i].code \in GlobalCodes
    /\ r[i].val # globalconfig(r[i].code) * 1000

\* verify_settings after the drain: how the call ends and, for its Exception,
\* the three values in the order they fill the message's slots:
\* 'Current setting for {key} is {current}, but {expected} is expected.'
VerifyOutcome(r, ws) ==
    LET bad == {n \in 1..9 :
                  LET v == LastEcho(r, settingsmap(CheckAxis(n), CheckKey(n)))
                  IN v = -1 \/ ~FloatEq(v, ws[CheckAxis(n)][CheckKey(n)])}
        gbad == {i \in 1..Len(r) : GlobalDiffers(r, i)}
    IN IF bad # {}
       THEN LET n == Min(bad)
                v == LastEcho(r, settingsmap(CheckAxis(n), CheckKey(n)))
            IN IF v = -1
               THEN [res |-> "KeyError", err |-> NoErr]
               ELSE [res |-> "Mismatch",
                     err |-> [key |-> CheckKey(n),
                              current |-> ws[CheckAxis(n)][CheckKey(n)],
                              expected |-> v]]
       ELSE IF gbad # {}
       THEN LET i == Min(gbad)
            IN [res |-> "Mismatch",
                err |-> [key |-> GlobalName(r[i].code),
                         current |-> <<globalconfig(r[i].code), 1>>,
                         expected |-> r[i].val]]
       ELSE [res |-> "ok", err |-> NoErr]

\* verify_settings: resp = self._read_buffer() and everything after it
VerifyDrain ==
    /\ pc = "vs_drain"
    /\ Drain
    /\ LET o == VerifyOutcome(read_buffer(inbuf)[1], writesettings)
       IN Finish(o.res, o.err, IF o.res = "ok" THEN <<TRUE>> ELSE NoRet)
    /\ UNCHANGED <<cfgVars, auxVars, devVars, op, ctx, arg, k, state, nops, npolls>>

\* ---------------------------------------------------------------- the board
\* GRBL 1.1 as the driver's docstrings and the wire protocol describe it.

RECURSIVE SeqOfSet(_)
SeqOfSet(S) == IF S = {} THEN <<>> ELSE <<Min(S)>> \o SeqOfSet(S \ {Min(S)})

\* the reply to $$: one echo per stored setting, in code order, then ok;
\* the line of code `lost` (0: none) is dropped on the way
DumpLines(lost) ==
    LET cs == SeqOfSet(Codes \ {lost})
    IN [i \in 1..Len(cs) |-> Echo(cs[i], dset[cs[i]])] \o <<Ok>>

\* the stamp of an ALARM line: where the running operation was when it was sent
AlarmStamp == IF pc = "idle" THEN -1 ELSE Len(sent)

\* the board takes the next command off the link and answers it; of a dump
\* the line of one code of `losable` may be lost (0: none is)
DevAnswer(losable) ==
    /\ outq # <<>>
    /\ outq' = Tail(outq)
    /\ LET c == Head(outq) IN
       CASE c.c = "G90" ->
              /\ inbuf' = Append(inbuf, IF dstate = "Alarm" THEN Other("error") ELSE Ok)
              /\ UNCHANGED <<dset, dstate, dsub, mpos, tgt, faults, alarmAt>>
         [] c.c = "G0" ->
              IF dstate = "Alarm"
              THEN /\ inbuf' = Append(inbuf, Other("error"))
                   /\ UNCHANGED <<dset, dstate, dsub, mpos, tgt, faults, alarmAt>>
              ELSE /\ inbuf' = Append(inbuf, Ok)
                   /\ tgt' = Append(tgt, [axis |-> c.axis,
                                          pos |-> RoundDiv(c.num * 1000, c.den)])
                   /\ dstate' = IF dstate = "Idle" THEN "Run" ELSE dstate
                   /\ UNCHANGED <<dset, dsub, mpos, faults, alarmAt>>
         [] c.c = "?" ->
              /\ inbuf' = Append(inbuf, StatusLine(dstate, dsub, mpos))
              /\ UNCHANGED <<dset, dstate, dsub, mpos, tgt, faults, alarmAt>>
         [] c.c = "$$" ->
              /\ IF dstate \in {"Idle", "Alarm"}
                 THEN \E lost \in losable : inbuf' = inbuf \o DumpLines(lost)
                 ELSE inbuf' = Append(inbuf, Other("error"))
              /\ UNCHANGED <<dset, dstate, dsub, mpos, tgt, faults, alarmAt>>
         [] c.c = "set" ->
              /\ IF dstate \in {"Idle", "Alarm"}
                 THEN /\ dset' = [dset EXCEPT ![c.code] = c.val]
                      /\ inbuf' = Append(inbuf, Ok)
                 ELSE /\ inbuf' = Append(inbuf, Other("error"))
                      /\ UNCHANGED dset
              /\ UNCHANGED <<dstate, dsub, mpos, tgt, faults, alarmAt>>
         [] c.c = "$X" ->
              /\ IF dstate = "Alarm"
                 THEN dstate' = "Idle" /\ inbuf' = inbuf \o <<Other("msg"), Ok>>
                 ELSE inbuf' = Append(inbuf, Ok) /\ UNCHANGED dstate
              /\ UNCHANGED <<dset, dsub, mpos, tgt, faults, alarmAt>>
         [] c.c = "$HZ" ->
              /\ IF dstate \in {"Idle", "Alarm"}
                 THEN /\ dstate' = "Idle"
                      /\ mpos' = [mpos EXCEPT !["Z"] = 0]
                      /\ inbuf' = Append(inbuf, Ok)
                 ELSE /\ inbuf' = Append(inbuf, Other("error"))
                      /\ UNCHANGED <<dstate, mpos>>
              /\ UNCHANGED <<dset, dsub, tgt, faults, alarmAt>>
         [] c.c = "!" ->
              /\ IF dstate = "Run"
                 THEN dstate' = "Hold" /\ dsub' = 1
                 ELSE UNCHANGED <<dstate, dsub>>
              /\ UNCHANGED <<dset, mpos, tgt, faults, alarmAt, inbuf>>
         [] c.c = "0x18" ->
              /\ tgt' = <<>>
              /\ dsub' = -1
              /\ IF dstate = "Run" \/ (dstate = "Hold" /\ dsub = 1)
                 THEN /\ dstate' = "Alarm"
                      /\ inbuf' = inbuf \o <<AlarmLine(3), Other("banner")>>
                      /\ alarmAt' = AlarmStamp
                 ELSE /\ dstate' = IF dstate = "Alarm" THEN "Alarm" ELSE "Idle"
                      /\ inbuf' = Append(inbuf, Other("banner"))
                      /\ UNCHANGED alarmAt
              /\ UNCHANGED <<dset, mpos, faults>>
    /\ UNCHANGED <<cfgVars, auxVars, drvVars>>

\* the board behind a link that may lose a line of a dump
DevHandle == DevAnswer(ProbeCodes \cup {0})

\* the board behind a link that loses nothing
DevHandleAll == DevAnswer({0})

\* the motion in progress advances by one thousandth, or ends
DevStep ==
    /\ dstate = "Run"
    /\ tgt # <<>>
    /\ LET t == Head(tgt) IN
       IF mpos[t.axis] = t.pos
       THEN /\ tgt' = Tail(tgt)
            /\ dstate' = IF Tail(tgt) = <<>> THEN "Idle" ELSE "Run"
            /\ UNCHANGED mpos
       ELSE /\ mpos' = [mpos EXCEPT ![t.axis] =
                          IF mpos[t.axis] < t.pos THEN mpos[t.axis] + 1
                          ELSE mpos[t.axis] - 1]
            /\ UNCHANGED <<tgt, dstate>>
    /\ UNCHANGED <<cfgVars, auxVars, drvVars, linkVars, dset, dsub, faults, alarmAt>>

\* a hard limit trips: the board stops, locks and sends ALARM:1
DevAlarm ==
    /\ dstate # "Alarm"
    /\ faults < MaxFaults
    /\ dstate' = "Alarm"
    /\ dsub' = -1
    /\ tgt' = <<>>
    /\ inbuf' = Append(inbuf, AlarmLine(1))
    /\ faults' = faults + 1
    /\ alarmAt' = AlarmStamp
    /\ UNCHANGED <<cfgVars, auxVars, drvVars, outq, dset, mpos>>

\* the safety door opens: the board holds
DevDoor ==
    /\ dstate \in {"Idle", "Run", "Hold"}
    /\ faults < MaxFaults
    /\ dstate' = "Door"
    /\ dsub' = 1
    /\ faults' = faults + 1
    /\ UNCHANGED <<cfgVars, auxVars, drvVars, linkVars, dset, mpos, tgt, alarmAt>>

\* the safety door closes: Door:0, ready to resume
DevDoorClose ==
    /\ dstate = "Door" /\ dsub = 1
    /\ dsub' = 0
    /\ UNCHANGED <<cfgVars, auxVars, drvVars, linkVars, dset, dstate, mpos, tgt, faults, alarmAt>>

\* the deceleration of a feed hold ends: Hold:0
DevHoldDone ==
    /\ dstate = "Hold" /\ dsub = 1
    /\ dsub' = 0
    /\ UNCHANGED <<cfgVars, auxVars, drvVars, linkVars, dset, dstate, mpos, tgt, faults, alarmAt>>

\* --------------------------------------------------------- specifications

DriverMotion ==
    \/ \E a \in AxisSet : \E s \in StepTargets(a) : \E b \in BOOLEAN : Move(a, s, b)
    \/ MoveG90
    \/ MoveG0
    \/ GetStatusReport
    \/ GetPositions
    \/ StatusStale
    \/ StatusSend
    \/ StatusResp
    \/ StatusUse
    \/ ControlledStop
    \/ ControlledStopHold
    \/ SoftReset
    \/ ResetSend
    \/ ResetDrain
    \/ AlarmReset
    \/ AlarmResetSend
    \/ ZHome
    \/ ZHomeSend

Board == DevHandle \/ DevStep \/ DevAlarm \/ DevDoor \/ DevDoorClose \/ DevHoldDone

NextMotion == DriverMotion \/ Board

SpecMotion == InitProvisioned /\ [][NextMotion]_vars

DriverSettings ==
    \/ \E a \in AxisSet : \E key \in {"sps", "sps2", "spm"} :
          \E v \in CfgVals(key) : SetConfig(a, key, v)
    \/ WriteAllSettings
    \/ WriteUpdate
    \/ WriteReset
    \/ WriteSend
    \/ WriteDrain
    \/ VerifySettings
    \/ VerifyReset
    \/ VerifySend
    \/ VerifyDrain

NextSettings == DriverSettings \/ DevHandle \/ DevAlarm

SpecSettings == Init /\ [][NextSettings]_vars

Next == DriverMotion \/ DriverSettings \/ Board

Spec == Init /\ [][Next]_vars

\* ------------------------------------------------------------------ claims

HasAlarmLine(r) == \E i \in 1..Len(r) : r[i].k = "ALARM"

Returned == pc = "idle" /\ result # "none"

BlockingMove == op = "move" /\ arg.blocking

Abs(x) == IF x < 0 THEN -x ELSE x

\* C1 (as stated): an ALARM line the board sends after G90 and G0 were written
\* and before the blocking move returns makes the move end with a fault
\* instead of success.
C1_AlarmDuringMoveFaults ==
    (BlockingMove /\ Returned /\ alarmAt >= 2) => result # "ok"

\* C1 (amended): when a buffer drain of a blocking move returns a list that
\* holds an ALARM line, the move ends there with the alarm fault: the driver
\* is at the alarm check that follows the drain or out of the call with the
\* fault raised, so nothing is written after that drain.
C1_DrainedAlarmEndsMove ==
    (BlockingMove /\ HasAlarmLine(resp)) =>
        IF pc = "idle" THEN result = "Alarm" ELSE pc = "sr_use"

\* C1 witness: a blocking move that ended with the alarm fault on the response
\* of a status request, the ALARM line behind another line of the drained list.
C1_Witness ==
    /\ BlockingMove /\ Returned /\ result = "Alarm"
    /\ Len(sent) >= 3
    /\ Len(resp) >= 2 /\ resp[1].k # "ALARM" /\ HasAlarmLine(resp)
    /\ alarmAt >= 2

\* C2: a blocking move returns success only if the position re-read after the
\* board stopped running is less than one step away from the target, above
\* or below.
C2_SuccessMeansOnTarget ==
    (BlockingMove /\ Returned /\ result = "ok") =>
        Abs(resp[1].mpos[arg.axis] * config[arg.axis].spm - arg.steps * 1000) < 1000

\* C3: a blocking move against a board that acknowledges every command, runs
\* and comes to rest at the commanded position ends in success.  Stated for
\* the first call after construction (idle board, quiet link) and a board on
\* which no limit and no door trips.
C3_MoveOnGoodBoardSucceeds ==
    (BlockingMove /\ Returned /\ nops = 1 /\ faults = 0) => result = "ok"

\* the dump r holds an echo of `code` whose reading equals v exactly
EchoEquals(r, code, v) ==
    \E i \in 1..Len(r) : r[i].k = "echo" /\ r[i].code = code /\ FloatEq(r[i].val, v)

\* every expected key, per axis and global, is echoed with its expected value
AllExpectedEchoed(r) ==
    /\ \A a \in AxisSet : \A j \in 1..3 :
          EchoEquals(r, settingsmap(a, Keys[j]), writesettings[a][Keys[j]])
    /\ \A c \in GlobalCodes : EchoEquals(r, c, <<globalconfig(c), 1>>)

\* C4: verify_settings() succeeds if and only if the dump echoes every expected
\* per-axis and global key with exactly the expected value.
C4_VerifyIffAllMatch ==
    (op = "verify_settings" /\ Returned) =>
        ((result = "ok") <=> AllExpectedEchoed(resp))

\* C5: at the moment verify_settings() succeeds, the steps-per-unit of every
\* axis that _move and get_positions convert with equals the resolution the
\* board holds for that axis.
C5_VerifiedResolution ==
    [][(pc = "vs_drain" /\ pc' = "idle" /\ result' = "ok") =>
          \A a \in AxisSet : config[a].spm * 1000 = dset[settingsmap(a, "steps/mm")]]_vars

\* C6: controlled_stop() writes feed-hold first, then only status requests, and
\* the soft-reset byte only as its last command and only when the last status
\* report parsed was Hold with sub-code 0; it returns only after such a report.
C6_ResetOnlyAfterHold0 ==
    op = "controlled_stop" =>
        /\ \A i \in 1..Len(sent) :
              \/ i = 1 /\ sent[i] = CmdHold
              \/ i > 1 /\ sent[i] = CmdStatus
              \/ /\ i > 1 /\ i = Len(sent) /\ sent[i] = CmdReset
                 /\ state = [tag |-> "Hold", sub |-> 0]
        /\ (Returned /\ result = "ok") => state = [tag |-> "Hold", sub |-> 0]

\* C7: in the settings write, the settings verification and the status poll, a
\* drained list that holds an ALARM line makes the operation raise instead of
\* acting on the other lines: the driver is at the alarm check that follows
\* the drain, or out of the call, and the call has not succeeded.
C7_EveryDrainAlarmChecked ==
    (/\ op \in {"write_all_settings", "verify_settings", "get_status_report",
                "get_positions", "move"}
     /\ HasAlarmLine(resp)) =>
        IF pc = "idle" THEN result # "ok" ELSE pc = "sr_use"

\* the response is a single bracketed status line
OneStatusLine(r) == Len(r) = 1 /\ r[1].k = "status"

\* C8: a status poll whose response holds no ALARM line succeeds only when the
\* response is exactly one bracketed status line, and otherwise fails with the
\* status-parse error and no other.
C8_StatusParseOnly ==
    (op = "get_status_report" /\ Returned /\ ndrains = 2 /\ ~HasAlarmLine(resp)) =>
        /\ (result = "ok") <=> OneStatusLine(resp)
        /\ ~OneStatusLine(resp) => result = "AssertStatus"

\* the n-th command of write_all_settings: axis by axis, key by key,
\* $<code>=<the derived value to three decimals>
ExpectedWrite(n) ==
    LET a == ((n - 1) \div 3) + 1
        j == ((n - 1) % 3) + 1
    IN [c |-> "set",
        code |-> 100 + 10 * (j - 1) + (a - 1),
        val |-> Fmt3(writesettings[Axes[a]][Keys[j]])]

\* C9: a settings write sends one $<code>=<value> command per logical key,
\* fails as soon as a drained response line is not ok, and returns success
\* only when every drained line was ok (and all nine commands were sent).
C9_WriteFailsOnNonOk ==
    op = "write_all_settings" =>
        /\ Len(sent) <= 9
        /\ \A n \in 1..Len(sent) : sent[n] = ExpectedWrite(n)
        /\ (\E i \in 1..Len(resp) : resp[i] # Ok) =>
              (pc = "idle" /\ result = "AssertOk")
        /\ (Returned /\ result = "ok") =>
              (Len(sent) = 9 /\ ndrains = 3 /\ \A i \in 1..Len(resp) : resp[i] = Ok)

\* C9 witness: a write that failed on a line other than the first response.
C9_Witness ==
    /\ op = "write_all_settings" /\ Returned /\ result = "AssertOk"
    /\ Len(sent) >= 3
    /\ Len(resp) >= 2 /\ resp[1] = Ok /\ \E i \in 1..Len(resp) : resp[i] # Ok

\* the values the driver wants for the key an error names
DesiredFor(key) ==
    IF key \in {"steps/mm", "mm/min", "mm/sec2"}
    THEN {writesettings[a][key] : a \in AxisSet}
    ELSE {<<globalconfig(c), 1>> : c \in {g \in GlobalCodes : GlobalName(g) = key}}

\* C10: the mismatch error of verify_settings() reports the driver's desired
\* value as the expected one and the value the board echoed as the current
\* (actual) one.
C10_ExpectedIsDesired ==
    (op = "verify_settings" /\ Returned /\ result = "Mismatch") =>
        /\ \E d \in DesiredFor(err.key) : FloatEq(err.expected, d)
        /\ \E i \in 1..Len(resp) :
              resp[i].k = "echo" /\ FloatEq(resp[i].val, err.current)

\* ------------------------------------- write and verify, pair after pair

MaxPairs == 2      \* write_all_settings(); verify_settings() pairs in a row

\* what the call that just ended left behind
Outcome == [op |-> op, result |-> result, dset |-> dset]

\* the caller runs write_all_settings() and verify_settings() in turn and
\* keeps the outcome of each call
PairWrite ==
    /\ nops < 2 * MaxPairs /\ nops % 2 = 0
    /\ Start("write_all_settings", NoArg, "ws_update")
    /\ hist' = IF nops = 0 THEN <<>> ELSE Append(hist, Outcome)
    /\ UNCHANGED <<ctx, cfgVars, fin, fout>>

PairVerify ==
    /\ nops < 2 * MaxPairs /\ nops % 2 = 1
    /\ Start("verify_settings", NoArg, "vs_reset")
    /\ hist' = Append(hist, Outcome)
    /\ UNCHANGED <<ctx, cfgVars, fin, fout>>

NextPairs ==
    \/ PairWrite
    \/ PairVerify
    \/ WriteUpdate
    \/ WriteReset
    \/ WriteSend
    \/ WriteDrain
    \/ VerifyReset
    \/ VerifySend
    \/ VerifyDrain
    \/ DevHandleAll

SpecPairs == Init /\ [][NextPairs]_vars

\* C11: two pairs of write_all_settings(); verify_settings() in a row, against
\* a board nothing else touches, end the same way call for call, and the board
\* stores after the second pair what it stored after the first.
C11_PairsIdempotent ==
    (nops = 4 /\ Returned) =>
        /\ hist[3].result = hist[1].result
        /\ result = hist[2].result
        /\ dset = hist[2].dset

\* C12: verify_settings() is read-only.  The only command it writes is the
\* settings dump; no step of the call changes the axis configuration, the
\* derived settings or the settings the board stores; and the board stores the
\* same after it has answered the dump.
C12_VerifyReadOnly ==
    [][/\ op' = "verify_settings" =>
            /\ Len(sent') <= 1
            /\ \A i \in 1..Len(sent') : sent'[i].c = "$$"
       /\ (op' = "verify_settings" /\ drvVars' # drvVars) =>
            (cfgVars' = cfgVars /\ dset' = dset)
       /\ (outq # <<>> /\ Head(outq).c = "$$" /\ outq' = Tail(outq)) =>
            dset' = dset]_vars

\* C12 witness: a verification that failed after it had read a dump, the board
\* storing what it stored when the call began.
C12_Witness ==
    /\ op = "verify_settings" /\ Returned /\ result = "Mismatch"
    /\ sent = <<CmdDump>> /\ Len(resp) > 1
    /\ outq = <<>>

\* C13: a non-blocking move writes G90, then one G0 for the requested axis, and
\* returns: it sends no status request, reads the buffer not once and checks
\* no position, whatever state the board is in.
C13_NonBlockingMove ==
    (op = "move" /\ ~arg.blocking) =>
        /\ pc \in {"mv_g90", "mv_g0", "idle"}
        /\ ndrains = 0 /\ npolls = 0 /\ resp = <<>>
        /\ Len(sent) <= 2
        /\ Len(sent) >= 1 => sent[1] = CmdG90
        /\ Len(sent) = 2 =>
              sent[2] = CmdG0(arg.axis, arg.steps, config[arg.axis].spm)
        /\ pc = "idle" => (result = "ok" /\ Len(sent) = 2)

\* C13 witness: a non-blocking move that returned while the board was locked
\* in alarm, its ALARM line unread in the buffer.
C13_Witness ==
    /\ op = "move" /\ ~arg.blocking /\ Returned
    /\ dstate = "Alarm" /\ HasAlarmLine(inbuf)

\* C14: soft_reset(), and stop(), write the reset byte, read the buffer once
\* and return normally whatever the lines read are, banners and ALARM lines
\* included.
C14_SoftResetNeverRaises ==
    (op \in {"soft_reset", "stop"}) =>
        /\ pc \in {"rs_send", "rs_drain", "idle"}
        /\ sent = IF pc = "rs_send" THEN <<>> ELSE <<CmdReset>>
        /\ ndrains = IF pc = "idle" THEN 1 ELSE 0
        /\ npolls = 0
        /\ pc = "idle" => result = "ok"

\* C14 witness: a reset that returned after it had drained an ALARM line and
\* the startup banner.
C14_Witness ==
    /\ op \in {"soft_reset", "stop"} /\ Returned /\ result = "ok"
    /\ HasAlarmLine(resp)
    /\ \E i \in 1..Len(resp) : resp[i] = Other("banner")

\* C15: at most one command is in flight.  Within an operation the driver
\* writes a further command only when the board has taken the one before off
\* the link and the driver has read the buffer at least once per command it
\* wrote before.
C15_OneCommandInFlight ==
    [][(Len(sent) >= 1 /\ Len(sent') = Len(sent) + 1) =>
          (outq = <<>> /\ ndrains >= Len(sent))]_vars

\* ------------------------------------------ steps to position and back

MaxSteps == 1100   \* step targets of the conversions applied on their own

ConvertInputs == [f : {"move"}, axis : AxisSet, steps : 0..MaxSteps]

InitConvert == Constructed(0) /\ fin \in ConvertInputs /\ fout = NoOut

\* the coordinate a G0 command carries, in thousandths
Milli(c) == RoundDiv(c.num * 1000, c.den)

\* _move: pos = steps/config['steps/mm'] and the command 'G0 '+axis+str(pos)
MoveCommand ==
    /\ fin.f = "move" /\ fout = NoOut
    /\ fout' = [f |-> "G0", cmd |-> CmdG0(fin.axis, fin.steps, config[fin.axis].spm)]
    /\ UNCHANGED <<cfgVars, devVars, linkVars, drvVars, hist, fin>>

\* get_positions on a status report whose MPos is the commanded coordinate
\* for the axis moved and 0.000 for the others
ReportedPositions ==
    /\ fout.f = "G0"
    /\ fout' = [f |-> "positions", cmd |-> fout.cmd,
                ret |-> steppositions([a \in AxisSet |->
                                          IF a = fout.cmd.axis THEN Milli(fout.cmd) ELSE 0],
                                      config)]
    /\ UNCHANGED <<cfgVars, devVars, linkVars, drvVars, hist, fin>>

NextConvert == MoveCommand \/ ReportedPositions

SpecConvert == InitConvert /\ [][NextConvert]_vars

\* C16: with 1000 steps per unit the coordinate of the G0 command is the step
\* target in thousandths of a unit, exactly, and get_positions on a report of
\* that coordinate returns the step target itself.
C16_RoundTrip ==
    /\ fout.f \in {"G0", "positions"} =>
          /\ (fout.cmd.num * 1000) % fout.cmd.den = 0
          /\ Milli(fout.cmd) = fin.steps
    /\ fout.f = "positions" =>
          /\ fout.ret[fin.axis].exact = fin.steps * 1000
          /\ fout.ret[fin.axis].dir = 0

\* the double d (m * 2^-e) lies less than a thousandth away from steps
WithinThousandth(d, steps) ==
    IF steps = 0 THEN d.m = <<>>
    ELSE LET x == BigMulAdd(BigMulAdd(d.m, 1000, 0), 1000, 0)
         IN /\ BigCmp(x, BigShl(BigOf(steps * 1000000 - 1000), d.e)) = 1
            /\ BigCmp(x, BigShl(BigOf(steps * 1000000 + 1000), d.e)) = -1

\* C16 (amended): with 1000 steps per unit the coordinate of the G0 command is
\* the step target in thousandths of a unit, exactly; get_positions on a
\* report of that coordinate returns the product computed in doubles, which
\* is the step target up to the rounding of the doubles: less than a
\* thousandth of a step away, so that rounding it gives the target.
C16_RoundTripUpToRounding ==
    /\ fout.f \in {"G0", "positions"} =>
          /\ (fout.cmd.num * 1000) % fout.cmd.den = 0
          /\ Milli(fout.cmd) = fin.steps
    /\ fout.f = "positions" =>
          /\ fout.ret[fin.axis].exact = fin.steps * 1000
          /\ WithinThousandth(fout.ret[fin.axis], fin.steps)

\* C16 witness: positions returned for a target of more than one unit whose
\* product in doubles falls just below the target.
C16_Witness ==
    /\ fout.f = "positions" /\ fin.steps > 1000
    /\ fout.ret[fin.axis].dir < 0

\* C17: in a blocking move against a board that answers G90 and G0 with ok and
\* every status request with one status line, an acknowledgement is never the
\* line a status poll takes for the status report, and the move succeeds,
\* however the arrival of the answers interleaves with the buffer drains.
\* Stated for the first call after construction and a board on which no limit
\* and no door trips.
C17_AckNeverReadAsStatus ==
    (BlockingMove /\ nops = 1 /\ faults = 0) =>
        /\ (ndrains >= 2 /\ ndrains % 2 = 0 /\ Len(resp) >= 1) => resp[1] # Ok
        /\ Returned => result \notin {"AssertStatus", "IndexError"}

\* C18: a blocking move does not return success when the status report its
\* position was read from, the last one it parsed, carries the state Alarm
\* (the board stays in alarm from the report that ended the poll loop on).
C18_NoSuccessInAlarm ==
    (BlockingMove /\ Returned /\ result = "ok") => state.tag # "Alarm"

\* the per-axis settings the current axis configuration calls for
\* (max rate, acceleration, resolution), as fractions
DerivedFromConfig(cfg) ==
    [a \in AxisSet |->
        [key \in {"steps/mm", "mm/min", "mm/sec2"} |->
            CASE key = "steps/mm" -> <<cfg[a].spm, 1>>
              [] key = "mm/min"   -> <<cfg[a].sps * 60, cfg[a].spm>>
              [] key = "mm/sec2"  -> <<cfg[a].sps2, cfg[a].spm>>]]

SameFraction(p, q) == p[1] * q[2] = q[1] * p[2]

\* write_all_settings() or verify_settings() is at a step that reads the
\* derived settings: a command being formatted, or the comparison
UsesDerived == pc \in {"ws_reset", "ws_send", "ws_drain", "vs_reset", "vs_send", "vs_drain"}

\* C19: whenever write_all_settings() or verify_settings() uses the derived
\* per-axis settings, each of them (max rate, acceleration, resolution) equals
\* the value computed from the current axis configuration, never a stale one.
C19_DerivedCurrent ==
    UsesDerived =>
        \A a \in AxisSet : \A key \in {"steps/mm", "mm/min", "mm/sec2"} :
            SameFraction(writesettings[a][key], DerivedFromConfig(config)[a][key])

\* ------------------------------------------------ one buffer drain, alone

MaxLen == 3
MaxCap == 3

\* the lines a drain is tried on: an acknowledgement, a blank line (readline
\* returns its line ending, which is not the empty read) and an alarm
DrainLines == {Ok, Other(""), AlarmLine(1)}

DrainInputs ==
    [f : {"read"},
     buf : UNION {[1..n -> DrainLines] : n \in 0..MaxLen},
     cap : 0..MaxCap]

InitDrain == Constructed(0) /\ fin \in DrainInputs /\ fout = NoOut

\* self._read_buffer(maxreads = cap) on an input buffer holding buf
ReadBuffer ==
    /\ fin.f = "read" /\ fout = NoOut
    /\ LET r == ReadLoop(fin.buf, <<>>, 0, fin.cap)
       IN fout' = [f |-> "drained", lines |-> r[1], rest |-> r[2]]
    /\ UNCHANGED <<cfgVars, devVars, linkVars, drvVars, hist, fin>>

\* the next call of _read_buffer, with the same cap, on what the first left
ReadBufferAgain ==
    /\ fout.f = "drained"
    /\ LET r == ReadLoop(fout.rest, <<>>, 0, fin.cap)
       IN fout' = [f |-> "again", lines |-> fout.lines, rest |-> fout.rest,
                   lines2 |-> r[1], rest2 |-> r[2]]
    /\ UNCHANGED <<cfgVars, devVars, linkVars, drvVars, hist, fin>>

NextDrain == ReadBuffer \/ ReadBufferAgain

SpecDrain == InitDrain /\ [][NextDrain]_vars

\* C20: a buffer drain returns, in arrival order, exactly the lines in front
\* of the first empty read or of the line cap, whichever comes first: the
\* result is the buffer's first min(length, cap) lines, it never has more
\* entries than the cap, an empty buffer gives the empty list and not an
\* error, and every line not returned is still in the buffer, in order.
C20_DrainExact ==
    fout.f \in {"drained", "again"} =>
        /\ Len(fout.lines) = Min({Len(fin.buf), fin.cap})
        /\ Len(fout.lines) <= fin.cap
        /\ fout.lines = SubSeq(fin.buf, 1, Len(fout.lines))
        /\ fout.lines \o fout.rest = fin.buf
        /\ fin.buf = <<>> => fout.lines = <<>>

\* C20 witness: a drain the cap cut short, a blank line among those returned.
C20_Witness ==
    /\ fout.f = "drained"
    /\ fin.cap >= 2 /\ Len(fin.buf) > fin.cap
    /\ Len(fout.lines) = fin.cap /\ fout.rest # <<>>
    /\ \E i \in 1..Len(fout.lines) : fout.lines[i] = Other("")

====
